---- MODULE Spec2Model ----
(***************************************************************************)
(* Model of tools/syn2mas/src/migrate.mts: the one-shot migration of the   *)
(* Synapse user tables into the MAS database.  One run of migrate() is a   *)
(* sequential process; pc is its position in the code.  The source         *)
(* (Synapse) tables are inputs: a row is drawn when the code reads it.     *)
(***************************************************************************)
EXTENDS Integers, Sequences, FiniteSets, TLC

\* ------------------------------------------------------------------ bounds
\* Spec: a run over several users whose tables hold few rows
MaxUsers == 2
MaxSourceRows == 1
\* SpecUser: a run over few users whose tables hold several rows
MaxUsersDeep == 1
MaxSourceRowsDeep == 2
MaxMappings == 1
\* SpecRedact: the longest password hash or token
MaxSecretLen == 5

\* ------------------------------------------------------------- value sets
Null == 0
NoId == <<0, 0>>
NoUser == [name |-> 0, is_guest |-> FALSE, deactivated |-> FALSE,
           password_hash |-> FALSE, appservice_id |-> FALSE, creation_ts |-> 0]

\* sequences over S of length 0..n
SeqUpTo(S, n) == UNION {[1..k -> S] : k \in 0..n}

\* A mapping argument is a string; its characters are ":" and the tokens
\* "p" (a provider name), "I" and "J" (well-formed identifiers, of which only
\* "I" names a row of upstream_oauth_providers) and "x" (any other text).
MappingStrings ==
  { <<"p", ":", "I">>, <<"p", ":", "J">>, <<"p", ":", "x">>, <<"p">>,
    <<":", "I">>, <<"p", ":">>, <<"p", ":", "I", ":", "x">> }
\* counts of rows the MAS users table may hold before the run
ExistingCounts == {0, 1}
MasProviderTable == {<<"I">>}
ProviderNames == {<<"p">>, <<"q">>}

\* rows of the Synapse tables, as far as the code reads them
SUserRows(n) ==
  [name : {n}, is_guest : BOOLEAN, deactivated : BOOLEAN,
   password_hash : BOOLEAN, appservice_id : BOOLEAN, creation_ts : {n}]
SUserThreePidRows == [medium : {"email", "msisdn"}, added_at : {5}]
SUserExternalIdRows == [auth_provider : ProviderNames]
\* refresh: the refresh_token_id column and what the refresh_tokens lookup
\* gives for it: "none" (column null), "found", "missing" (no such row),
\* "error" (the lookup query rejects)
SAccessTokenRows ==
  { r \in [device_id : BOOLEAN, last_validated : {Null, 9},
           refresh : {"none", "found", "missing", "error"}] :
      ~r.device_id => r.last_validated = Null /\ r.refresh \in {"none", "missing"} }


VARIABLES
  dryRun,            \* args.dryRun
  dbName,            \* synapseConfig.database.name
  limits,            \* extent of the Synapse database: users rows, other rows
  mappingsLeft,      \* args.upstreamProviderMapping not yet iterated
  existingCount,     \* rows of MAS users before the run
  pc,                \* position in migrate() / migrateUser()
  upstreamProviders, \* Map<string, MUpstreamOauthProvider>, as name -> id
  warnings,          \* warnings: string[]
  fatals,            \* fatals
  log,               \* lines emitted at fatal and warn level
  synapseUsers,      \* synapseUsers counter
  rowNo,             \* rows of Synapse users scanned so far
  tableSize,         \* sqlite3: rows the materialized query scans
  user,              \* the SUser migrateUser runs on
  warningsForUser,   \* warningsForUser
  executions,        \* executions: the rows their closures insert
  synapseThreePids,  \* user_threepids rows of the user
  synapseExternalIds, \* user_external_ids rows of the user
  accessTokenRows,   \* access_tokens rows of the user, before whereNotNull
  issued,            \* source queries issued: <<table, user name>>
  tx,                \* state of the knex transaction object
  txRows,            \* rows written through tx, not yet committed
  masRows,           \* rows the run has made visible in the MAS tables
  execIdx,           \* executions already awaited in the commit loop
  err,               \* the error caught at line 409
  guests,            \* history: names of the guest rows handed to migrateUser
  unresolvedSeen,    \* history: external ids with an unmapped provider read
  txOpened,          \* history: calls of mas.transaction()
  rowsRead,          \* history: rows of the per-user source tables read
  masReads,          \* history: tables of MAS read, in the order of the reads
  appserviceRows,    \* history: names of the rows whereNull filtered out
  rethrown,          \* the error thrown at line 415
  logged,            \* the record a diagnostic line is about
  rendered           \* the text of that diagnostic line

vars == <<dryRun, dbName, limits, mappingsLeft, existingCount, pc, upstreamProviders,
          warnings, fatals, log, synapseUsers, rowNo, tableSize, user,
          warningsForUser, executions, synapseThreePids, synapseExternalIds,
          accessTokenRows, issued, tx, txRows,
          masRows, execIdx, err, guests, unresolvedSeen, txOpened,
          rowsRead, masReads, appserviceRows, rethrown, logged, rendered>>

\* the diagnostic text is written by the log calls alone
redactVars == <<logged, rendered>>
inputVars == <<dryRun, dbName, limits, existingCount, redactVars>>
auxVars == <<masReads, appserviceRows, rethrown>>
localVars == <<synapseThreePids, synapseExternalIds, accessTokenRows>>
userVars == <<user, warningsForUser, executions, localVars>>
txVars == <<tx, txRows, masRows, execIdx, err, txOpened>>
histVars == <<guests, unresolvedSeen, rowsRead>>
scanVars == <<synapseUsers, rowNo, tableSize>>

Terminal == {"done", "failed", "exited", "threw"}

\* ------------------------------------------------------------ log, fatal
WarnLines(ws) == [i \in 1..Len(ws) |-> [level |-> "warn", msg |-> ws[i]]]

\* fatal(), lines 106-113: what it appends to the log
FatalLog(lg, ws, msg) == lg \o <<[level |-> "fatal", msg |-> msg]>> \o WarnLines(ws)

\* variant: fatal() never exits the process
FatalExitsNever(dry) == FALSE

\* fatal(), lines 109-111: does the process exit
FatalExits(dry) == ~dry

\* variant: fatal() does not count
FatalCountSame(n) == n

\* fatal(), line 112
FatalCount(n) == n + 1

\* the state migrate() starts from, whatever its arguments
Fresh ==
  /\ pc = "resolve"
  /\ upstreamProviders = <<>>
  /\ warnings = <<>>
  /\ fatals = 0
  /\ log = <<>>
  /\ synapseUsers = 0
  /\ rowNo = 0
  /\ tableSize = 0
  /\ user = NoUser
  /\ warningsForUser = 0
  /\ executions = <<>>
  /\ synapseThreePids = <<>>
  /\ synapseExternalIds = <<>>
  /\ accessTokenRows = <<>>
  /\ issued = {}
  /\ tx = "none"
  /\ txRows = <<>>
  /\ masRows = <<>>
  /\ execIdx = 0
  /\ err = "none"
  /\ guests = {}
  /\ unresolvedSeen = 0
  /\ txOpened = 0
  /\ rowsRead = 0
  /\ masReads = <<>>
  /\ appserviceRows = {}
  /\ rethrown = "none"
  /\ logged = <<>>
  /\ rendered = <<>>

Start ==
  /\ dryRun \in BOOLEAN
  /\ dbName \in {"sqlite3", "postgres"}
  /\ mappingsLeft \in SeqUpTo(MappingStrings, MaxMappings)
  /\ existingCount \in ExistingCounts
  /\ Fresh

Init == Start /\ limits = [users |-> MaxUsers, rows |-> MaxSourceRows]

InitUser == Start /\ limits = [users |-> MaxUsersDeep, rows |-> MaxSourceRowsDeep]

\* ------------------------------------------------- provider mapping 137-172
\* String.prototype.split(":"): the parts between the separators
RECURSIVE SplitFrom(_, _, _)
SplitFrom(s, i, cur) ==
  IF i > Len(s) THEN <<cur>>
  ELSE IF s[i] = ":" THEN <<cur>> \o SplitFrom(s, i + 1, <<>>)
  ELSE SplitFrom(s, i + 1, Append(cur, s[i]))
Split(s) == SplitFrom(s, 1, <<>>)

\* const [providerId, masProviderId] = mapping.split(":"), line 140;
\* a missing element is undefined, falsy like the empty string
ProviderIdOf(mapping) == Split(mapping)[1]
MasProviderIdOf(mapping) ==
  IF Len(Split(mapping)) >= 2 THEN Split(mapping)[2] ELSE <<>>

\* lines 147-151: isRaw / isCanonical of Uuid and Ulid
IsIdentifier(text) == text \in {<<"I">>, <<"J">>}

\* lines 161-165: the lookup in upstream_oauth_providers gives a row
ProviderExists(masProviderId) == masProviderId \in MasProviderTable

\* one iteration of the loop of line 139
ResolveMapping ==
  /\ pc = "resolve"
  /\ mappingsLeft # <<>>
  /\ LET mapping == Head(mappingsLeft)
         providerId == ProviderIdOf(mapping)
         masProviderId == MasProviderIdOf(mapping)
     IN IF providerId = <<>> \/ masProviderId = <<>>
          THEN /\ pc' = "threw"
               /\ UNCHANGED <<upstreamProviders, mappingsLeft, masReads>>
        ELSE IF ~IsIdentifier(masProviderId)
          THEN /\ pc' = "threw"
               /\ UNCHANGED <<upstreamProviders, mappingsLeft, masReads>>
        ELSE IF ~ProviderExists(masProviderId)
          THEN /\ pc' = "threw"
               /\ masReads' = Append(masReads, "upstream_oauth_providers")
               /\ UNCHANGED <<upstreamProviders, mappingsLeft>>
        ELSE /\ masReads' = Append(masReads, "upstream_oauth_providers")
             /\ upstreamProviders' =
                  [n \in DOMAIN upstreamProviders \cup {providerId} |->
                     IF n = providerId THEN masProviderId
                     ELSE upstreamProviders[n]]
             /\ mappingsLeft' = Tail(mappingsLeft)
             /\ pc' = "resolve"
  /\ UNCHANGED <<inputVars, appserviceRows, rethrown, warnings, fatals, log,
                 scanVars, userVars, issued, txVars, histVars>>

\* ------------------------------------------------------ safety gate 185-194
\* variant: the users table of MAS is not counted
GateQueryNone(reads) == reads

\* lines 185-188: the count query on the users table of MAS
GateQuery(reads) == Append(reads, "users")

SafetyGate ==
  /\ pc = "resolve"
  /\ mappingsLeft = <<>>
  /\ masReads' = GateQuery(masReads)
  /\ IF existingCount > 0
       THEN /\ log' = FatalLog(log, warnings, <<"existing", 0, existingCount>>)
            /\ IF FatalExits(dryRun)
                 THEN pc' = "exited" /\ UNCHANGED fatals
                 ELSE pc' = "query_users" /\ fatals' = FatalCount(fatals)
       ELSE pc' = "query_users" /\ UNCHANGED <<log, fatals>>
  /\ UNCHANGED <<inputVars, appserviceRows, rethrown, mappingsLeft,
                 upstreamProviders, warnings, scanVars, userVars, issued,
                 txVars, histVars>>

\* ------------------------------------------------ extraction driver 431-452
\* variant: the query without its whereNull
EligibleAlways(row) == TRUE

\* .whereNull("appservice_id"), line 435
Eligible(row) == ~row.appservice_id

\* lines 438-440 and 447: the users query is issued
QueryUsers ==
  /\ pc = "query_users"
  /\ issued' = issued \cup {<<"users", 0>>}
  /\ IF dbName = "sqlite3"
       THEN \/ /\ \E n \in 0..limits.users : tableSize' = n
               /\ pc' = "next_user"
            \/ /\ pc' = "threw"
               /\ UNCHANGED tableSize
       ELSE /\ pc' = "next_user"
            /\ UNCHANGED tableSize
  /\ UNCHANGED <<inputVars, auxVars, mappingsLeft, upstreamProviders, warnings, fatals,
                 log, synapseUsers, rowNo, userVars, txVars, histVars>>

\* lines 442-443 and 449-450: the loop body up to the call of migrateUser,
\* for a row the query lets through; a row it filters out is passed over
SurfaceRow(row) ==
  /\ rowNo' = rowNo + 1
  /\ appserviceRows' =
       appserviceRows \cup (IF row.appservice_id THEN {row.name} ELSE {})
  /\ IF Eligible(row)
       THEN /\ synapseUsers' = synapseUsers + 1
            /\ user' = row
            /\ guests' = guests \cup (IF row.is_guest THEN {row.name} ELSE {})
            /\ pc' = "transform"
       ELSE /\ pc' = "next_user"
            /\ UNCHANGED <<synapseUsers, user, guests>>
  /\ UNCHANGED <<inputVars, masReads, rethrown, mappingsLeft, upstreamProviders, warnings, fatals,
                 log, tableSize, warningsForUser, executions, localVars,
                 issued, txVars, unresolvedSeen, rowsRead>>

\* for (const user of synapseUserRows), line 441
NextUserMaterialized ==
  /\ pc = "next_user"
  /\ dbName = "sqlite3"
  /\ rowNo < tableSize
  /\ \E row \in SUserRows(rowNo + 1) : SurfaceRow(row)

\* for await (const user of synapseUserStream), line 448
NextUserStream ==
  /\ pc = "next_user"
  /\ dbName # "sqlite3"
  /\ rowNo < limits.users
  /\ \E row \in SUserRows(rowNo + 1) : SurfaceRow(row)

\* the stream rejects while it is iterated
StreamError ==
  /\ pc = "next_user"
  /\ dbName # "sqlite3"
  /\ pc' = "threw"
  /\ UNCHANGED <<inputVars, auxVars, mappingsLeft, upstreamProviders, warnings, fatals,
                 log, scanVars, userVars, issued, txVars, histVars>>

\* the loop of line 441 or 448 ends
EndOfUsers ==
  /\ pc = "next_user"
  /\ dbName = "sqlite3" => rowNo = tableSize
  /\ pc' = "summary"
  /\ UNCHANGED <<inputVars, auxVars, mappingsLeft, upstreamProviders, warnings, fatals,
                 log, scanVars, userVars, issued, txVars, histVars>>

\* ---------------------------------------------------- migrateUser 196-418
\* makeUuid, lines 115-119: a fresh identifier; the rows of one user are
\* numbered in the order they are derived
NewId(u, ex) == <<u.name, Len(ex) + 1>>

Row(table, id, userId, session, access, created, locked) ==
  [table |-> table, id |-> id, user_id |-> userId, compat_session_id |-> session,
   compat_access_token_id |-> access, created_at |-> created, locked_at |-> locked]

\* new Date(Number.parseInt(`${user.creation_ts}`) * 1000), lines 208-210
UserCreatedAt(u) == u.creation_ts * 1000

\* line 215
LockedAt(u) == IF u.deactivated THEN UserCreatedAt(u) ELSE Null

\* lines 211-217
MUser(u, ex) ==
  Row("users", NewId(u, ex), NewId(u, ex), NoId, NoId, UserCreatedAt(u), LockedAt(u))

\* lines 222-228
MUserPassword(u, masUser, ex) ==
  Row("user_passwords", NewId(u, ex), masUser.id, NoId, NoId, masUser.created_at, Null)

\* lines 254-265
MUserEmail(u, masUser, threePid, ex) ==
  Row("user_emails", NewId(u, ex), masUser.id, NoId, NoId, threePid.added_at, Null)

\* lines 288-294
MUpstreamOauthLink(u, masUser, ex) ==
  Row("upstream_oauth_links", NewId(u, ex), masUser.id, NoId, NoId,
      masUser.created_at, Null)

\* lines 327-329
TokenCreatedAt(accessToken, masUser) ==
  IF accessToken.last_validated # Null THEN accessToken.last_validated
  ELSE masUser.created_at

\* lines 330-336
MCompatSession(u, masUser, accessToken, ex) ==
  Row("compat_sessions", NewId(u, ex), masUser.id, NoId, NoId,
      TokenCreatedAt(accessToken, masUser), Null)

\* lines 346-351
MCompatAccessToken(u, masUser, session, accessToken, ex) ==
  Row("compat_access_tokens", NewId(u, ex), NoId, session.id, NoId,
      TokenCreatedAt(accessToken, masUser), Null)

\* lines 368-375
MCompatRefreshToken(u, masUser, session, access, accessToken, ex) ==
  Row("compat_refresh_tokens", NewId(u, ex), NoId, session.id, access.id,
      TokenCreatedAt(accessToken, masUser), Null)

\* variant: no guest check
IsGuestNever(u) == FALSE

\* line 203
IsGuest(u) == u.is_guest

\* lines 197-236: guest check, users row, user_passwords row
Transform ==
  /\ pc = "transform"
  /\ LET masUser == MUser(user, <<>>)
         ex1 == <<masUser>>
         ex2 == IF user.password_hash
                  THEN Append(ex1, MUserPassword(user, masUser, ex1)) ELSE ex1
     IN IF IsGuest(user)
          THEN /\ log' = FatalLog(log, warnings, <<"guest", user.name, 0>>)
               /\ IF FatalExits(dryRun)
                    THEN /\ pc' = "exited"
                         /\ UNCHANGED <<fatals, executions>>
                    ELSE /\ fatals' = FatalCount(fatals)
                         /\ executions' = ex2
                         /\ pc' = "threepids"
          ELSE /\ executions' = ex2
               /\ pc' = "threepids"
               /\ UNCHANGED <<log, fatals>>
  /\ warningsForUser' = 0
  /\ UNCHANGED <<inputVars, auxVars, mappingsLeft, upstreamProviders, warnings,
                 scanVars, user, localVars, issued, txVars, histVars>>

\* the function migrateUser returns to the loop of migrate
ReturnFromUser ==
  /\ pc' = "next_user"
  /\ user' = NoUser
  /\ warningsForUser' = 0
  /\ executions' = <<>>
  /\ synapseThreePids' = <<>>
  /\ synapseExternalIds' = <<>>
  /\ accessTokenRows' = <<>>

\* lines 243-273: the loop over the three-pid rows
RECURSIVE ThreePidLoop(_, _, _, _)
ThreePidLoop(u, rows, i, st) ==
  IF i > Len(rows) THEN st
  ELSE IF rows[i].medium # "email"
    THEN ThreePidLoop(u, rows, i + 1,
           [st EXCEPT !.w = @ + 1,
                      !.warnings = Append(@, <<"3pid", u.name, i>>)])
    ELSE ThreePidLoop(u, rows, i + 1,
           [st EXCEPT !.ex = Append(@, MUserEmail(u, st.ex[1], rows[i], st.ex))])

\* lines 239-273: user_threepids => user_emails
ThreePids ==
  /\ pc = "threepids"
  /\ issued' = issued \cup {<<"user_threepids", user.name>>}
  /\ \/ \E rows \in SeqUpTo(SUserThreePidRows, limits.rows - rowsRead) :
          LET st == ThreePidLoop(user, rows, 1,
                      [ex |-> executions, w |-> warningsForUser,
                       warnings |-> warnings])
          IN /\ synapseThreePids' = rows
             /\ executions' = st.ex
             /\ warningsForUser' = st.w
             /\ warnings' = st.warnings
             /\ rowsRead' = rowsRead + Len(rows)
             /\ pc' = "external_ids"
     \/ /\ pc' = "threw"
        /\ UNCHANGED <<executions, warningsForUser, warnings, rowsRead,
                       synapseThreePids>>
  /\ UNCHANGED <<inputVars, auxVars, mappingsLeft, upstreamProviders, fatals, log,
                 scanVars, user, synapseExternalIds, accessTokenRows, txVars,
                 guests, unresolvedSeen>>

\* variant: every provider name is taken as mapped
ResolvedAlways(providers, externalId) == TRUE

\* line 282-283: upstreamProviders.get(externalId.auth_provider)
Resolved(providers, externalId) == externalId.auth_provider \in DOMAIN providers

\* lines 280-310: the loop over the external-id rows; a fatal() that exits
\* ends it
RECURSIVE ExternalIdLoop(_, _, _, _)
ExternalIdLoop(u, rows, i, st) ==
  IF i > Len(rows) \/ st.exited THEN st
  ELSE IF Resolved(upstreamProviders, rows[i])
    THEN ExternalIdLoop(u, rows, i + 1,
           [st EXCEPT !.ex = Append(@, MUpstreamOauthLink(u, st.ex[1], st.ex))])
    ELSE LET lg == FatalLog(st.log, warnings, <<"external_id", u.name, i>>)
         IN IF FatalExits(dryRun)
              THEN [st EXCEPT !.log = lg, !.exited = TRUE]
              ELSE ExternalIdLoop(u, rows, i + 1,
                     [st EXCEPT !.log = lg, !.fatals = FatalCount(@)])

Unresolved(rows) ==
  Cardinality({i \in 1..Len(rows) : rows[i].auth_provider \notin DOMAIN upstreamProviders})

\* lines 276-310: user_external_ids => upstream_oauth_links
ExternalIds ==
  /\ pc = "external_ids"
  /\ issued' = issued \cup {<<"user_external_ids", user.name>>}
  /\ \/ \E rows \in SeqUpTo(SUserExternalIdRows, limits.rows - rowsRead) :
          LET st == ExternalIdLoop(user, rows, 1,
                      [ex |-> executions, log |-> log, fatals |-> fatals,
                       exited |-> FALSE])
          IN /\ synapseExternalIds' = rows
             /\ executions' = st.ex
             /\ log' = st.log
             /\ fatals' = st.fatals
             /\ unresolvedSeen' = unresolvedSeen + Unresolved(rows)
             /\ rowsRead' = rowsRead + Len(rows)
             /\ pc' = IF st.exited THEN "exited" ELSE "tokens"
     \/ /\ pc' = "threw"
        /\ UNCHANGED <<executions, log, fatals, unresolvedSeen, rowsRead,
                       synapseExternalIds>>
  /\ UNCHANGED <<inputVars, auxVars, mappingsLeft, upstreamProviders, warnings,
                 scanVars, user, warningsForUser, synapseThreePids,
                 accessTokenRows, txVars, guests>>

\* the rows of access_tokens of one user, with their id column
AccessTokenTable(rows) ==
  [i \in 1..Len(rows) |->
     [id |-> i, device_id |-> rows[i].device_id,
      last_validated |-> rows[i].last_validated, refresh |-> rows[i].refresh]]

\* variant: the query without its whereNotNull
WhereAnyDeviceId(rows) == rows

\* .whereNotNull("device_id"), line 325
WhereNotNullDeviceId(rows) == SelectSeq(rows, LAMBDA r : r.device_id)

\* lines 326-391: the loop over the access tokens; a refresh-token lookup
\* that rejects ends it
RECURSIVE AccessTokenLoop(_, _, _, _)
AccessTokenLoop(u, rows, i, st) ==
  IF i > Len(rows) \/ st.threw THEN st
  ELSE
    LET accessToken == rows[i]
        masUser == st.ex[1]
        session == MCompatSession(u, masUser, accessToken, st.ex)
        ex1 == Append(st.ex, session)
        access == MCompatAccessToken(u, masUser, session, accessToken, ex1)
        ex2 == Append(ex1, access)
        asked == st.issued \cup {<<"refresh_tokens", u.name>>}
    IN IF accessToken.refresh = "none"
         THEN AccessTokenLoop(u, rows, i + 1, [st EXCEPT !.ex = ex2])
       ELSE IF accessToken.refresh = "error"
         THEN [st EXCEPT !.ex = ex2, !.issued = asked, !.threw = TRUE]
       ELSE IF accessToken.refresh = "found"
         THEN AccessTokenLoop(u, rows, i + 1,
                [st EXCEPT !.issued = asked,
                           !.ex = Append(ex2, MCompatRefreshToken(
                                    u, masUser, session, access, accessToken, ex2))])
       ELSE AccessTokenLoop(u, rows, i + 1,
              [st EXCEPT !.ex = ex2, !.issued = asked, !.w = @ + 1,
                         !.warnings = Append(@, <<"refresh", u.name, accessToken.id>>)])

\* variant: tokens are imported for every user
SkipsTokensNever(u) == FALSE

\* line 313
SkipsTokens(u) == u.deactivated

\* lines 312-392: access_tokens, refresh_tokens => compat_sessions,
\* compat_access_tokens, compat_refresh_tokens
Tokens ==
  /\ pc = "tokens"
  /\ IF SkipsTokens(user)
       THEN /\ pc' = "disposition"
            /\ UNCHANGED <<issued, executions, warningsForUser, warnings,
                           accessTokenRows, rowsRead>>
       ELSE
         \/ \E rows \in SeqUpTo(SAccessTokenRows, limits.rows - rowsRead) :
              LET st == AccessTokenLoop(user,
                          WhereNotNullDeviceId(AccessTokenTable(rows)), 1,
                          [ex |-> executions, w |-> warningsForUser,
                           warnings |-> warnings,
                           issued |-> issued \cup {<<"access_tokens", user.name>>},
                           threw |-> FALSE])
              IN /\ accessTokenRows' = AccessTokenTable(rows)
                 /\ executions' = st.ex
                 /\ warningsForUser' = st.w
                 /\ warnings' = st.warnings
                 /\ issued' = st.issued
                 /\ rowsRead' = rowsRead + Len(rows)
                 /\ pc' = IF st.threw THEN "threw" ELSE "disposition"
         \/ /\ issued' = issued \cup {<<"access_tokens", user.name>>}
            /\ pc' = "threw"
            /\ UNCHANGED <<executions, warningsForUser, warnings, accessTokenRows,
                           rowsRead>>
  /\ UNCHANGED <<inputVars, auxVars, mappingsLeft, upstreamProviders, fatals, log,
                 scanVars, user, synapseThreePids, synapseExternalIds, txVars,
                 guests, unresolvedSeen>>

\* variants: warnings never escalate; warnings escalate in dry-run too
EscalatesNever(dry) == FALSE
EscalatesAlways(dry) == TRUE

\* line 395: warnings escalate to fatal()
Escalates(dry) == ~dry

\* variant: the dry-run flag is not consulted before committing
CommitsAlways(dry) == TRUE

\* line 400: the user is committed
Commits(dry) == ~dry

\* the rows read for the user are not read again after line 392
ForgetRows ==
  /\ synapseThreePids' = <<>>
  /\ synapseExternalIds' = <<>>
  /\ accessTokenRows' = <<>>

\* lines 394-402: the disposition of the user
Disposition ==
  /\ pc = "disposition"
  /\ IF warningsForUser > 0
       THEN IF Escalates(dryRun)
              THEN /\ log' = FatalLog(log, warnings,
                                      <<"user_warnings", user.name, warningsForUser>>)
                   /\ IF FatalExits(dryRun)
                        THEN /\ pc' = "exited"
                             /\ ForgetRows
                             /\ UNCHANGED <<fatals, user, warningsForUser, executions>>
                        ELSE /\ fatals' = FatalCount(fatals)
                             /\ ReturnFromUser
                   /\ UNCHANGED <<tx, execIdx, txOpened>>
              ELSE /\ log' = Append(log, [level |-> "warn",
                                 msg |-> <<"user_warnings", user.name, warningsForUser>>])
                   /\ ReturnFromUser
                   /\ UNCHANGED <<fatals, tx, execIdx, txOpened>>
       ELSE IF Commits(dryRun)
              THEN /\ ForgetRows
                   /\ UNCHANGED <<log, fatals, user, warningsForUser, executions>>
                   /\ \/ /\ tx' = "open"
                         /\ txOpened' = txOpened + 1
                         /\ execIdx' = 0
                         /\ pc' = "executing"
                      \/ /\ pc' = "threw"
                         /\ UNCHANGED <<tx, execIdx, txOpened>>
              ELSE /\ ReturnFromUser
                   /\ UNCHANGED <<log, fatals, tx, execIdx, txOpened>>
  /\ UNCHANGED <<inputVars, auxVars, mappingsLeft, upstreamProviders, warnings,
                 scanVars, issued, txRows, masRows, err, histVars>>

\* lines 218, 235, 272, 303, 343, 358, 382: the closures insert through the
\* connection mas, not through the transaction tx
InsertHandle == "mas"

\* an insert that succeeds: through tx the row waits for the commit, through
\* mas it is a statement of its own and is visible at once
Insert(handle, row) ==
  IF handle = "tx"
    THEN txRows' = Append(txRows, row) /\ UNCHANGED masRows
    ELSE masRows' = Append(masRows, row) /\ UNCHANGED txRows

\* variant: the executions are awaited last first
NextExecutionReversed(ex, done) == ex[Len(ex) - done]

\* for (const execution of executions), line 404: the execution awaited
\* once `done` of them have been
NextExecution(ex, done) == ex[done + 1]

\* lines 404-406: await execution(), which resolves or rejects
RunExecution ==
  /\ pc = "executing"
  /\ execIdx < Len(executions)
  /\ \/ /\ Insert(InsertHandle, NextExecution(executions, execIdx))
        /\ execIdx' = execIdx + 1
        /\ pc' = "executing"
        /\ UNCHANGED err
     \/ /\ err' = "insert"
        /\ pc' = "rollback"
        /\ UNCHANGED <<execIdx, txRows, masRows>>
  /\ UNCHANGED <<inputVars, auxVars, mappingsLeft, upstreamProviders, warnings, fatals,
                 log, scanVars, userVars, issued, tx, histVars, txOpened>>

\* variant: tx.commit() is not awaited, migrateUser returns while it is pending
CommitPending == "open"

\* await tx.commit(), line 407: the transaction once the await has resolved
CommitResolved == "committed"

\* lines 407-408: await tx.commit()
Commit ==
  /\ pc = "executing"
  /\ execIdx = Len(executions)
  /\ \/ /\ tx' = CommitResolved
        /\ masRows' = masRows \o txRows
        /\ txRows' = <<>>
        /\ execIdx' = 0
        /\ ReturnFromUser
        /\ UNCHANGED err
     \/ /\ err' = "commit"
        /\ pc' = "rollback"
        /\ UNCHANGED <<tx, masRows, txRows, execIdx, userVars>>
  /\ UNCHANGED <<inputVars, auxVars, mappingsLeft, upstreamProviders, warnings, fatals,
                 log, scanVars, issued, histVars, txOpened>>

\* variant: the error of the rollback is the one thrown
PropagatedLast(e, e2) == IF e2 # "none" THEN e2 ELSE e

\* throw e, line 415: e is the error caught at line 409, e2 the one of the
\* rollback, "none" if it resolved
Propagated(e, e2) == e

\* lines 409-416: await tx.rollback(), then throw e
Rollback ==
  /\ pc = "rollback"
  /\ \/ /\ tx' = "rolled_back"
        /\ txRows' = <<>>
        /\ rethrown' = Propagated(err, "none")
        /\ UNCHANGED log
     \/ /\ tx' = "rollback_failed"
        /\ log' = Append(log, [level |-> "error", msg |-> <<"rollback", user.name, 0>>])
        /\ rethrown' = Propagated(err, "rollback")
        /\ UNCHANGED txRows
  /\ pc' = "threw"
  /\ UNCHANGED <<inputVars, masReads, appserviceRows, mappingsLeft, upstreamProviders, warnings, fatals,
                 scanVars, userVars, issued, masRows, execIdx, err, histVars,
                 txOpened>>

\* lines 454-460: the summary
Summary ==
  /\ pc = "summary"
  /\ log' = log \o WarnLines(warnings)
  /\ pc' = IF fatals > 0 THEN "failed" ELSE "done"
  /\ UNCHANGED <<inputVars, auxVars, mappingsLeft, upstreamProviders, warnings, fatals,
                 scanVars, userVars, issued, txVars, histVars>>

Next ==
  \/ ResolveMapping
  \/ SafetyGate
  \/ QueryUsers
  \/ NextUserMaterialized
  \/ NextUserStream
  \/ StreamError
  \/ EndOfUsers
  \/ Transform
  \/ ThreePids
  \/ ExternalIds
  \/ Tokens
  \/ Disposition
  \/ RunExecution
  \/ Commit
  \/ Rollback
  \/ Summary

Spec == Init /\ [][Next]_vars

SpecUser == InitUser /\ [][Next]_vars

\* ------------------------------------------------ diagnostic lines 174-181
\* A text is a sequence of characters; a field name, the marker and the fixed
\* words of a line stand as one character each, which no pattern splits.
\* the double quote character
Quote == "dquote"
SecretChars == {"s", "t"}
\* password hashes and tokens: the non-empty texts over SecretChars
SecretValues == SeqUpTo(SecretChars, MaxSecretLen) \ {<<>>}
\* the value of a column that holds no secret
Plain == <<"n">>
\* a column that is null
NoText == <<"null">>

Field(key, value) == [key |-> key, value |-> value]

\* JSON.stringify of a value: a string in quotes, null bare
ValueText(value) ==
  IF value = NoText THEN <<"null">> ELSE <<Quote>> \o value \o <<Quote>>

RECURSIVE Members(_, _)
Members(fields, i) ==
  IF i > Len(fields) THEN <<>>
  ELSE (IF i > 1 THEN <<",">> ELSE <<>>)
         \o <<Quote, fields[i].key, Quote, ":">> \o ValueText(fields[i].value)
         \o Members(fields, i + 1)

\* JSON.stringify(input), line 175, of a record given as its fields in order
Stringify(fields) == <<"{">> \o Members(fields, 1) \o <<"}">>

\* the names in the pattern of line 178
SensitiveNames == {"password_hash", "hashed_password", "access_token", "token"}

\* the pattern of line 178 matches at i: a quoted name of the list, a colon,
\* a quote, then characters other than the quote, then a quote
MatchAt(x, i) ==
  /\ i + 5 <= Len(x)
  /\ x[i] = Quote /\ x[i + 1] \in SensitiveNames /\ x[i + 2] = Quote
  /\ x[i + 3] = ":" /\ x[i + 4] = Quote
  /\ \E j \in (i + 5)..Len(x) : x[j] = Quote

\* x.replace(pattern, '$1redacted"'), lines 177-180: the pattern has no g
\* flag, so the leftmost match alone is replaced
Replace(x) ==
  LET at == {i \in DOMAIN x : MatchAt(x, i)}
  IN IF at = {} THEN x
     ELSE LET i == CHOOSE k \in at : \A m \in at : k <= m
              j == CHOOSE k \in (i + 5)..Len(x) :
                     x[k] = Quote /\ \A m \in (i + 5)..(k - 1) : x[m] # Quote
          IN SubSeq(x, 1, i + 4) \o <<"redacted", Quote>> \o SubSeq(x, j + 1, Len(x))

\* lines 174-181
StringifyAndRedact(input) == Replace(Stringify(input))

\* String.prototype.slice(-n): the last n characters, all of a shorter text
SliceLast(text, n) ==
  IF Len(text) <= n THEN text ELSE SubSeq(text, Len(text) - n + 1, Len(text))

\* the records of the log calls, as far as their columns hold text
SUserRecord(hash) == <<Field("name", Plain), Field("password_hash", hash)>>
MUserRecord == <<Field("user_id", Plain), Field("username", Plain)>>
MUserPasswordRecord(hash) ==
  <<Field("user_id", Plain), Field("hashed_password", hash)>>
SAccessTokenRecord(token) == <<Field("device_id", Plain), Field("token", token)>>
MCompatSessionRecord == <<Field("user_id", Plain), Field("device_id", Plain)>>
MCompatAccessTokenRecord(token) ==
  <<Field("compat_session_id", Plain), Field("access_token", token)>>

\* the state but for the diagnostic line
mainVars == <<dryRun, dbName, limits, existingCount, mappingsLeft, pc,
              upstreamProviders, warnings, fatals, log, scanVars, userVars,
              issued, txVars, histVars, auxVars>>

\* log.debug, line 219
LogUser ==
  /\ \E hash \in SecretValues \cup {NoText} :
       /\ logged' = SUserRecord(hash) \o MUserRecord
       /\ rendered' = StringifyAndRedact(SUserRecord(hash)) \o <<" => ">>
                         \o StringifyAndRedact(MUserRecord)
  /\ UNCHANGED mainVars

\* log.debug, lines 230-234, reached when user.password_hash is truthy
LogPassword ==
  /\ \E hash \in SecretValues :
       /\ logged' = SUserRecord(hash) \o MUserPasswordRecord(hash)
       /\ rendered' = <<"Password ">> \o SliceLast(hash, 4) \o <<" => ">>
                         \o StringifyAndRedact(MUserPasswordRecord(hash))
  /\ UNCHANGED mainVars

\* log.debug, lines 337-341
LogSession ==
  /\ \E token \in SecretValues :
       /\ logged' = SAccessTokenRecord(token) \o MCompatSessionRecord
       /\ rendered' = StringifyAndRedact(SAccessTokenRecord(token)) \o <<" => ">>
                         \o StringifyAndRedact(MCompatSessionRecord)
  /\ UNCHANGED mainVars

\* log.debug, lines 352-356
LogAccessToken ==
  /\ \E token \in SecretValues :
       /\ logged' = MCompatAccessTokenRecord(token)
       /\ rendered' = <<"Access token ", "1", " => ">>
                         \o StringifyAndRedact(MCompatAccessTokenRecord(token))
  /\ UNCHANGED mainVars

InitRedact ==
  /\ dryRun = FALSE
  /\ dbName = "postgres"
  /\ limits = [users |-> 0, rows |-> 0]
  /\ mappingsLeft = <<>>
  /\ existingCount = 0
  /\ Fresh

NextRedact == LogUser \/ LogPassword \/ LogSession \/ LogAccessToken

\* the log calls of migrateUser, each on any record it may be given
SpecRedact == InitRedact /\ [][NextRedact]_vars

\* ================================================================ claims
Range(f) == {f[i] : i \in DOMAIN f}
RowOwner(row) == row.id[1]
Count(rows, table) == Cardinality({i \in DOMAIN rows : rows[i].table = table})
Emitted(w) == [level |-> "warn", msg |-> w] \in Range(log)
FatalLine(msg) == [level |-> "fatal", msg |-> msg] \in Range(log)
NoRowOf(name) ==
  /\ \A i \in DOMAIN masRows : RowOwner(masRows[i]) # name
  /\ \A i \in DOMAIN txRows : RowOwner(txRows[i]) # name
NoTargetWrite == masRows = <<>> /\ txRows = <<>> /\ txOpened = 0 /\ tx = "none"
\* the safety gate has been passed
PastGate == pc # "resolve" /\ mappingsLeft = <<>>
\* users whose pipeline has read its external ids, so has transformed the user
Processed == {q[2] : q \in {r \in issued : r[1] = "user_external_ids"}}
InPipeline == pc \in {"threepids", "external_ids", "tokens", "disposition"}
AtSummary == pc \in {"summary", "done", "failed"}
NonEmail(rows) == {i \in DOMAIN rows : rows[i].medium # "email"}
WarningsOf(kind, name) ==
  {i \in DOMAIN warnings : warnings[i][1] = kind /\ warnings[i][2] = name}
FatalConditions ==
  (IF existingCount > 0 THEN 1 ELSE 0) + Cardinality(guests) + unresolvedSeen
NoFatalCondition == FatalConditions = 0

\* C1 (as claimed): once an insertion of a user has failed and migrateUser
\* has rolled back and thrown, the target store holds no row of that user.
C1_Atomicity ==
  (pc = "threw" /\ err = "insert" /\ tx = "rolled_back") =>
    \A i \in DOMAIN masRows : RowOwner(masRows[i]) # user.name

\* C2 (as claimed): with a non-empty target users table, in either mode, no
\* extraction query is ever issued and nothing is written to the target.
C2_GateAlwaysAborts ==
  existingCount > 0 => issued = {} /\ NoTargetWrite

\* C2 (amended): with a non-empty target users table nothing is ever written
\* to the target; in real-run the process exits at the gate before any
\* extraction query; in dry-run the gate counts one fatal, extraction goes
\* on, and the run never ends as a success.
C2_GateThm ==
  existingCount > 0 =>
    /\ NoTargetWrite
    /\ ~dryRun => issued = {} /\ (PastGate => pc = "exited")
    /\ dryRun => pc \notin {"exited", "done"} /\ (PastGate => fatals >= 1)

C2_Witness == existingCount > 0 /\ ~dryRun /\ pc = "exited" /\ issued = {}

\* C3: in dry-run no transaction is opened and no insertion reaches the
\* target, fatals never stop the run, every user handed to the pipeline is
\* transformed, and at the summary every eligible user has been processed.
C3_DryRunNoWrites ==
  dryRun =>
    /\ NoTargetWrite
    /\ pc \notin {"executing", "rollback", "exited"}
    /\ InPipeline => Len(executions) >= 1 /\ executions[1] = MUser(user, <<>>)
    /\ AtSummary => Cardinality(Processed) = synapseUsers

C3_Witness ==
  dryRun /\ pc = "failed" /\ synapseUsers >= 2 /\ warnings # <<>> /\ fatals > 0

\* C4: no row of a guest user is ever written; in real-run the process exits
\* at the guest check with the fatal logged; in dry-run each guest is logged
\* and counted as a fatal and the run cannot end as a success.
C4_GuestExclusion ==
  /\ \A g \in guests : NoRowOf(g)
  /\ (~dryRun /\ guests # {}) =>
       /\ user.is_guest /\ guests = {user.name}
       /\ pc \in {"transform", "exited"}
       /\ pc = "exited" => FatalLine(<<"guest", user.name, 0>>)
  /\ dryRun =>
       /\ \A g \in guests :
            (pc = "transform" /\ user.name = g) \/ FatalLine(<<"guest", g, 0>>)
       /\ fatals >= Cardinality(guests)
                      - (IF pc = "transform" /\ user.is_guest THEN 1 ELSE 0)
       /\ guests # {} => pc # "done"

C4_Witness ==
  ~dryRun /\ pc = "exited" /\ user.is_guest /\ masRows # <<>>

\* C5 (as claimed): in real-run, when the process exits on a user with a
\* recorded warning, it does so at that user's disposition step, with every
\* warning emitted.
C5_EndsAtDisposition ==
  (~dryRun /\ warningsForUser > 0 /\ pc = "exited") =>
    /\ FatalLine(<<"user_warnings", user.name, warningsForUser>>)
    /\ \A i \in DOMAIN warnings : Emitted(warnings[i])

C5_Warned ==
  (~dryRun /\ warnings # <<>>) =>
    /\ \A i \in DOMAIN warnings : warnings[i][2] = user.name
    /\ warningsForUser = Len(warnings)
    /\ pc \in {"external_ids", "tokens", "disposition", "exited", "threw"}
    /\ NoRowOf(user.name)
    /\ pc = "exited" =>
         /\ \A i \in DOMAIN warnings : Emitted(warnings[i])
         /\ \/ FatalLine(<<"user_warnings", user.name, warningsForUser>>)
            \/ \E k \in DOMAIN synapseExternalIds :
                 FatalLine(<<"external_id", user.name, k>>)

C5_DispositionStep ==
  (~dryRun /\ pc = "disposition" /\ warningsForUser > 0) =>
    /\ pc' = "exited"
    /\ log' = FatalLog(log, warnings, <<"user_warnings", user.name, warningsForUser>>)
    /\ UNCHANGED <<masRows, txRows, txOpened, user>>

\* C5 (amended): in real-run a user with a recorded warning never has a row
\* written and no later user is processed; the run stays in that user's
\* pipeline, and whenever fatal() ends it (at the disposition step, which
\* always does so when reached, or earlier at an unresolved external id) the
\* process exits after every accumulated warning has been emitted.
C5_EscalationThm == []C5_Warned /\ [][C5_DispositionStep]_vars

C5_Witness ==
  /\ ~dryRun /\ pc = "exited" /\ warningsForUser > 0
  /\ \A i \in DOMAIN warnings : Emitted(warnings[i])
  /\ FatalLine(<<"user_warnings", user.name, warningsForUser>>)

\* C6 (as claimed): a dry-run whose only finding is a non-email three-pid
\* reports failure at the final summary.
C6_WarningFailsRun ==
  (dryRun /\ NoFatalCondition /\ pc \in {"done", "failed"}
     /\ \E i \in DOMAIN warnings : warnings[i][1] = "3pid") => pc = "failed"

\* C6 (amended): in a dry-run with no fatal condition, each non-email
\* three-pid row records exactly one warning, nothing is written, the run is
\* never ended mid-stream, later users are processed, and the run ends as a
\* success with fatal count 0 and the warnings replayed in the summary.
C6_DryRunWarningThm ==
  (dryRun /\ NoFatalCondition) =>
    /\ pc \in {"external_ids", "tokens", "disposition"} =>
         /\ Cardinality(WarningsOf("3pid", user.name))
              = Cardinality(NonEmail(synapseThreePids))
         /\ \A i \in NonEmail(synapseThreePids) :
              <<"3pid", user.name, i>> \in Range(warnings)
         /\ warningsForUser >= Cardinality(NonEmail(synapseThreePids))
    /\ NoTargetWrite
    /\ fatals = 0
    /\ pc \notin {"exited", "failed"}
    /\ pc = "done" =>
         /\ \A i \in DOMAIN warnings : Emitted(warnings[i])
         /\ Cardinality(Processed) = synapseUsers

C6_Witness ==
  /\ dryRun /\ NoFatalCondition /\ pc = "done"
  /\ warnings = <<(<<"3pid", 1, 1>>)>>
  /\ 2 \in Processed

\* C7: when the summary ends the run, it fails it exactly if the fatal count
\* is positive, and that count is the number of fatal conditions met (gate,
\* guests, unresolved providers), warnings adding nothing; in dry-run a fatal
\* never exits and every eligible user is processed before the summary.
C7_RunOutcome ==
  /\ pc \in {"done", "failed"} =>
       /\ pc = "failed" <=> fatals > 0
       /\ fatals = FatalConditions
  /\ dryRun => pc # "exited"
  /\ (dryRun /\ AtSummary) =>
       /\ fatals = FatalConditions
       /\ Cardinality(Processed) = synapseUsers

C7_Witness ==
  /\ dryRun /\ pc = "failed" /\ fatals >= 2 /\ warnings # <<>>
  /\ guests # {} /\ synapseUsers >= 2

\* C8: a deactivated user's derived insertions are its users row, locked at
\* its creation time, one email row per email three-pid and one link row per
\* resolved external id, and no compat row; no token query is issued and no
\* missing-refresh-token warning is recorded for it.
C8_DeactivatedNoTokens ==
  (pc = "disposition" /\ user.deactivated) =>
    /\ executions[1].table = "users"
    /\ executions[1].created_at = user.creation_ts * 1000
    /\ executions[1].locked_at = executions[1].created_at
    /\ executions[1].locked_at # Null
    /\ Count(executions, "users") = 1
    /\ Count(executions, "user_emails")
         = Len(synapseThreePids) - Cardinality(NonEmail(synapseThreePids))
    /\ Count(executions, "upstream_oauth_links")
         = Cardinality({i \in DOMAIN synapseExternalIds :
              synapseExternalIds[i].auth_provider \in DOMAIN upstreamProviders})
    /\ Count(executions, "compat_sessions") = 0
    /\ Count(executions, "compat_access_tokens") = 0
    /\ Count(executions, "compat_refresh_tokens") = 0
    /\ <<"access_tokens", user.name>> \notin issued
    /\ <<"refresh_tokens", user.name>> \notin issued
    /\ WarningsOf("refresh", user.name) = {}

C8_Witness ==
  /\ pc = "disposition" /\ user.deactivated
  /\ Count(executions, "user_emails") = 1
  /\ Count(executions, "upstream_oauth_links") = 1

\* C9: for an active user, the device-less access tokens derive no row and
\* no warning, whatever refresh token they name; each token with a device
\* derives one session and one access-token row, a refresh-token row if its
\* refresh token is found and one warning if it is missing.
C9_DevicelessExcluded ==
  (pc = "disposition" /\ ~user.deactivated) =>
    LET dev == {i \in DOMAIN accessTokenRows : accessTokenRows[i].device_id}
        with(r) == {i \in dev : accessTokenRows[i].refresh = r}
    IN /\ Count(executions, "compat_sessions") = Cardinality(dev)
       /\ Count(executions, "compat_access_tokens") = Cardinality(dev)
       /\ Count(executions, "compat_refresh_tokens") = Cardinality(with("found"))
       /\ Cardinality(WarningsOf("refresh", user.name)) = Cardinality(with("missing"))
       /\ \A i \in WarningsOf("refresh", user.name) : warnings[i][3] \in with("missing")
       /\ warningsForUser
            = Cardinality(with("missing")) + Cardinality(NonEmail(synapseThreePids))

C9_Witness ==
  /\ pc = "disposition" /\ ~user.deactivated /\ warningsForUser = 0
  /\ Len(accessTokenRows) = 2
  /\ ~accessTokenRows[1].device_id /\ accessTokenRows[1].refresh = "missing"
  /\ accessTokenRows[2].device_id
  /\ Count(executions, "compat_sessions") = 1

\* C10 (as claimed): however the run ends, every warning recorded so far has
\* been emitted to the log.
C10_WarningsReplayed ==
  pc \in Terminal => \A i \in DOMAIN warnings : Emitted(warnings[i])

\* a mapping split on its first ":" only
FirstColon(mapping) ==
  IF \E i \in DOMAIN mapping : mapping[i] = ":"
    THEN CHOOSE i \in DOMAIN mapping :
           mapping[i] = ":" /\ \A j \in 1..(i - 1) : mapping[j] # ":"
    ELSE Len(mapping) + 1
SourceName(mapping) == SubSeq(mapping, 1, FirstColon(mapping) - 1)
Remainder(mapping) == SubSeq(mapping, FirstColon(mapping) + 1, Len(mapping))

\* a mapping the resolver is to refuse: a side is empty, the right side is
\* not an identifier, or no provider row has that identifier
ConfigError(mapping) ==
  \/ SourceName(mapping) = <<>>
  \/ Remainder(mapping) = <<>>
  \/ Remainder(mapping) \notin {<<"I">>, <<"J">>}
  \/ Remainder(mapping) \notin MasProviderTable

C11_ResolveStep ==
  (pc = "resolve" /\ mappingsLeft # <<>> /\ ConfigError(Head(mappingsLeft))) =>
    /\ pc' = "threw"
    /\ UNCHANGED <<upstreamProviders, mappingsLeft, issued, masRows, txRows,
                   tx, txOpened, fatals, log>>

\* C11 (as claimed): in either mode a mapping with an empty side, with a
\* right side that is not an identifier, or naming a provider MAS does not
\* hold makes the run throw at once, the provider map left as it was, no
\* source query issued and nothing written to MAS.
C11_ConfigErrorAborts == [][C11_ResolveStep]_vars

\* C12 (as claimed): in the text of a diagnostic line no character of the
\* value of a logged record's field named password_hash, hashed_password,
\* access_token or token appears.
C12_NoSecretLogged ==
  \A i \in DOMAIN logged :
    (logged[i].key \in SensitiveNames /\ logged[i].value # NoText) =>
      \A k \in DOMAIN rendered : rendered[k] \notin Range(logged[i].value)

UsersRowsOf(name) ==
  {i \in DOMAIN masRows : masRows[i].table = "users" /\ RowOwner(masRows[i]) = name}

\* C13: no row and no query is ever made for an appservice-owned user; when
\* a real-run reaches the summary, every row of the users query has been
\* scanned, each user without an appservice has gone through the pipeline
\* and has exactly one users row in MAS, and the count reported is the number
\* of those users, each of which opened one transaction.
C13_OneUserEach ==
  /\ \A n \in appserviceRows :
       NoRowOf(n) /\ \A q \in issued : q[2] # n
  /\ (~dryRun /\ AtSummary) =>
       /\ dbName = "sqlite3" => rowNo = tableSize
       /\ \A n \in 1..rowNo :
            Cardinality(UsersRowsOf(n)) = IF n \in appserviceRows THEN 0 ELSE 1
       /\ Processed = (1..rowNo) \ appserviceRows
       /\ synapseUsers = Cardinality(Processed)
       /\ synapseUsers = txOpened
       /\ Count(masRows, "users") = synapseUsers

C13_Witness ==
  /\ ~dryRun /\ pc = "done" /\ rowNo = 2 /\ appserviceRows = {1}
  /\ synapseUsers = 1 /\ Count(masRows, "users") = 1

C14_OneAtATime ==
  /\ tx = "open" => pc \in {"executing", "rollback"} /\ user # NoUser
  /\ pc \in {"next_user", "transform", "threepids", "external_ids", "tokens",
             "disposition", "summary"} => tx \in {"none", "committed"}
  /\ pc = "next_user" =>
       user = NoUser /\ executions = <<>> /\ warningsForUser = 0
  /\ txOpened <= synapseUsers
  /\ \A q \in issued : q[1] # "users" => q[2] \in 1..rowNo

C14_Step ==
  /\ rowNo' # rowNo =>
       /\ pc = "next_user" /\ user = NoUser /\ tx \in {"none", "committed"}
       /\ rowNo' = rowNo + 1
  /\ \A q \in issued' \ issued : q = <<"users", 0>> \/ q[2] = user.name
  /\ txOpened' # txOpened =>
       tx \in {"none", "committed"} /\ tx' = "open" /\ txOpened' = txOpened + 1

\* C14: a transaction is open only while the one user in the pipeline is
\* being committed or rolled back; every source query issued is for the user
\* in the pipeline; the next row of the users query is taken, on the
\* materialized and on the streaming path alike, only when no user is in the
\* pipeline and no transaction is open, and a transaction is opened only when
\* none is open.
C14_SequentialThm == []C14_OneAtATime /\ [][C14_Step]_vars

C14_Witness ==
  /\ dbName = "postgres" /\ pc = "executing" /\ tx = "open" /\ txOpened = 2
  /\ user.name = 2 /\ Cardinality(UsersRowsOf(1)) = 1

\* C15 (as claimed): the count query on the users table of MAS comes before
\* every lookup of a provider.
C15_GateFirst ==
  \A i \in DOMAIN masReads :
    masReads[i] = "upstream_oauth_providers" =>
      \E j \in 1..(i - 1) : masReads[j] = "users"

\* C15 (amended): the count query on the users table of MAS is issued once,
\* after the resolver has parsed every mapping and made every provider
\* lookup, and before any source query is issued, any user is extracted and
\* anything is written to MAS.
C15_GateAfterResolver ==
  /\ \A i \in DOMAIN masReads :
       masReads[i] = "users" => i = Len(masReads) /\ mappingsLeft = <<>>
  /\ PastGate => "users" \in Range(masReads)
  /\ (issued # {} \/ rowNo > 0 \/ user # NoUser \/ ~NoTargetWrite) =>
       "users" \in Range(masReads)
  /\ pc = "exited" /\ issued = {} =>
       masReads[Len(masReads)] = "users" /\ existingCount > 0

C15_Witness ==
  /\ masReads = <<"upstream_oauth_providers", "users">>
  /\ existingCount > 0 /\ ~dryRun /\ pc = "exited"

\* the insertions applied so far, in the order they were applied
Applied == masRows \o txRows

\* C16: in the order the insertions are applied, the users row of a user
\* comes before every other row of that user; every password, email, link
\* and session row names as its user an users row applied earlier, every
\* access-token row names a session row applied earlier, and every
\* refresh-token row names a session row and an access-token row of that
\* session, both applied earlier.
C16_ParentsFirst ==
  \A i \in DOMAIN Applied :
    LET r == Applied[i]
        earlier(table, id) ==
          {j \in 1..(i - 1) : /\ Applied[j].table = table
                              /\ Applied[j].id = id
                              /\ RowOwner(Applied[j]) = RowOwner(r)}
    IN /\ r.table = "users" =>
            \A j \in 1..(i - 1) : RowOwner(Applied[j]) # RowOwner(r)
       /\ r.table \in {"user_passwords", "user_emails", "upstream_oauth_links",
                       "compat_sessions"} =>
            earlier("users", r.user_id) # {}
       /\ r.table = "compat_access_tokens" =>
            earlier("compat_sessions", r.compat_session_id) # {}
       /\ r.table = "compat_refresh_tokens" =>
            /\ earlier("compat_sessions", r.compat_session_id) # {}
            /\ \E k \in earlier("compat_access_tokens", r.compat_access_token_id) :
                 /\ Applied[k].compat_session_id = r.compat_session_id
                 /\ \E j \in earlier("compat_sessions", r.compat_session_id) : j < k

C16_Witness ==
  /\ ~dryRun /\ tx = "committed" /\ pc = "next_user"
  /\ Count(masRows, "user_passwords") = 1
  /\ Count(masRows, "user_emails") = 1
  /\ Count(masRows, "compat_refresh_tokens") = 1

C17_Failed ==
  /\ err # "none" =>
       /\ pc \in {"rollback", "threw"}
       /\ user # NoUser /\ synapseUsers = user.name - Cardinality(appserviceRows)
       /\ rowNo = user.name
  /\ pc = "rollback" => err \in {"insert", "commit"} /\ tx = "open"
  /\ (pc = "threw" /\ err # "none") =>
       /\ tx \in {"rolled_back", "rollback_failed"}
       /\ rethrown = err
       /\ tx = "rollback_failed" <=>
            [level |-> "error", msg |-> <<"rollback", user.name, 0>>] \in Range(log)
  /\ rethrown # "none" => pc = "threw" /\ err = rethrown
  /\ tx \in {"rolled_back", "rollback_failed"} => pc = "threw" /\ err # "none"

C17_FailStep ==
  /\ (pc = "executing" /\ err' # "none") =>
       pc' = "rollback" /\ UNCHANGED <<tx, txOpened, execIdx, user>>
  /\ pc = "rollback" =>
       /\ pc' = "threw"
       /\ tx' \in {"rolled_back", "rollback_failed"}
       /\ rethrown' = err
       /\ UNCHANGED <<err, txOpened, execIdx, user, rowNo, synapseUsers, issued>>
  /\ err # "none" => UNCHANGED <<err, txOpened, execIdx, rowNo, synapseUsers>>

\* C17: a failed insertion or a failed commit is followed at once by one
\* rollback of the open transaction, whose outcome ends the run: the error
\* thrown is the one that failed the insertion or the commit whether the
\* rollback succeeds or fails, a failed rollback is logged, and after the
\* failure no execution is awaited, no transaction is opened and no row of
\* the users query is taken.
C17_RollbackThm == []C17_Failed /\ [][C17_FailStep]_vars

C17_Witness ==
  /\ pc = "threw" /\ err = "commit" /\ rethrown = "commit"
  /\ tx = "rollback_failed" /\ rowNo < limits.users

C18_AcceptStep ==
  mappingsLeft' # mappingsLeft =>
    LET mapping == Head(mappingsLeft)
    IN /\ SourceName(mapping) # <<>>
       /\ Remainder(mapping) \in {<<"I">>, <<"J">>}
       /\ SourceName(mapping) \in DOMAIN upstreamProviders'
       /\ upstreamProviders'[SourceName(mapping)] = Remainder(mapping)

\* C18 (as claimed): a mapping the resolver accepts has a non-empty text
\* before its first ":" and, after it, a remainder that is as a whole an
\* identifier; the provider map takes the one as key and the provider of the
\* other as value.
C18_FirstColonSplit == [][C18_AcceptStep]_vars

\* the per-user source queries issued for a user
QueriesOf(name) == {q \in issued : q[1] # "users" /\ q[2] = name}
\* the lines fatal() has logged for a user
FatalLinesOf(name) ==
  {i \in DOMAIN log : log[i].level = "fatal" /\ log[i].msg[2] = name}

\* C19 (as claimed): in either mode, for a guest user handed to the pipeline
\* no per-user query is issued, no warning and no fatal other than the guest
\* fatal is recorded, and no insertion is derived.
C19_GuestStops ==
  \A g \in guests :
    /\ QueriesOf(g) = {}
    /\ \A i \in DOMAIN warnings : warnings[i][2] # g
    /\ \A i \in FatalLinesOf(g) : log[i].msg[1] = "guest"
    /\ user.name = g => executions = <<>>

\* C19 (amended): in real-run the process exits at the guest check with the
\* one guest fatal logged, no query issued for that user, no warning
\* recorded and no insertion derived; in dry-run the guest check logs and
\* counts one fatal and the pipeline goes on for that user: its users row is
\* derived, its three-pid and external-id queries are issued, and it is
\* never committed.
C19_GuestThm ==
  \A g \in guests :
    /\ NoRowOf(g)
    /\ ~dryRun =>
         /\ user.name = g /\ pc \in {"transform", "exited"}
         /\ QueriesOf(g) = {} /\ warnings = <<>> /\ executions = <<>>
         /\ pc = "exited" =>
              /\ Cardinality(FatalLinesOf(g)) = 1
              /\ FatalLine(<<"guest", g, 0>>)
    /\ dryRun =>
         /\ (user.name = g /\ pc = "transform") \/ FatalLine(<<"guest", g, 0>>)
         /\ (user.name = g /\ InPipeline) => executions[1] = MUser(user, <<>>)
         /\ user.name # g =>
              /\ <<"user_threepids", g>> \in QueriesOf(g)
              /\ <<"user_external_ids", g>> \in QueriesOf(g)

C19_Witness ==
  /\ dryRun /\ user.is_guest /\ pc = "disposition"
  /\ warningsForUser = 1 /\ FatalLine(<<"guest", user.name, 0>>)
  /\ <<"access_tokens", user.name>> \in issued

\* the external-id rows of the user in the pipeline whose provider is unmapped
Unmapped ==
  {i \in DOMAIN synapseExternalIds :
     synapseExternalIds[i].auth_provider \notin DOMAIN upstreamProviders}
ExternalIdFatals ==
  {i \in FatalLinesOf(user.name) : log[i].msg[1] = "external_id"}

\* C20: in real-run, once an external-id row with an unmapped provider has
\* been read the process has exited at the first such row of the user, with
\* a link derived for the rows before it only and no row of the user
\* written; in dry-run each such row is logged and counted as one fatal and
\* derives no link, the other rows derive one link each, and the user's
\* pipeline goes on to its tokens.
C20_Unresolved ==
  /\ (~dryRun /\ unresolvedSeen > 0) =>
       /\ pc = "exited" /\ Unmapped # {}
       /\ NoRowOf(user.name)
       /\ \E first \in Unmapped :
            /\ \A i \in Unmapped : first <= i
            /\ FatalLine(<<"external_id", user.name, first>>)
            /\ Count(executions, "upstream_oauth_links") = first - 1
       /\ Cardinality(ExternalIdFatals) = 1
       /\ <<"access_tokens", user.name>> \notin issued
  /\ (dryRun /\ pc \in {"tokens", "disposition"}) =>
       /\ Cardinality(ExternalIdFatals) = Cardinality(Unmapped)
       /\ \A i \in Unmapped : FatalLine(<<"external_id", user.name, i>>)
       /\ Count(executions, "upstream_oauth_links")
            = Len(synapseExternalIds) - Cardinality(Unmapped)
       /\ fatals = FatalConditions
       /\ NoTargetWrite
  /\ (dryRun /\ pc = "disposition" /\ ~user.deactivated) =>
       <<"access_tokens", user.name>> \in issued
  /\ dryRun => pc # "exited"

C20_Witness ==
  /\ dryRun /\ pc = "disposition" /\ ~user.deactivated
  /\ synapseExternalIds = <<[auth_provider |-> <<"q">>], [auth_provider |-> <<"p">>]>>
  /\ Unmapped = {1} /\ fatals = 1
  /\ Count(executions, "upstream_oauth_links") = 1

\* C21: in real-run, whenever a user's pipeline starts, a transaction is
\* open or has been opened, or the summary is reached, the fatal count is 0
\* and no warning is recorded; the summary of a real-run never fails the
\* run; and a user whose rows are being or have been applied had no warning,
\* is no guest, and no unmapped external-id provider had been read.
C21_RealRunCounters ==
  /\ ~dryRun => fatals = 0
  /\ (~dryRun /\ (pc = "transform" \/ tx = "open" \/ AtSummary)) =>
       warnings = <<>> /\ unresolvedSeen = 0
  /\ (~dryRun /\ pc = "transform") => guests \subseteq {user.name}
  /\ pc = "failed" => dryRun /\ fatals > 0
  /\ (~dryRun /\ tx = "open") =>
       warningsForUser = 0 /\ ~user.is_guest /\ guests = {}
  /\ (~dryRun /\ txOpened > 0 /\ pc \in {"executing", "rollback", "next_user",
                                        "summary", "done"}) =>
       warnings = <<>> /\ unresolvedSeen = 0 /\ guests = {}
  /\ \A i \in DOMAIN Applied : RowOwner(Applied[i]) \notin guests

C21_Witness ==
  /\ ~dryRun /\ pc = "done" /\ synapseUsers = 2 /\ txOpened = 2
  /\ Count(masRows, "users") = 2 /\ rowsRead = 1

====
